---- MODULE Spec2Model ----
(***************************************************************************)
(* Hotel churn data pipeline: retention cleanup, the two pipeline run      *)
(* modes (historical bootstrap, weekly increment), the storage sessions    *)
(* they open, and the quality checks of quality_check.py.                  *)
(*                                                                         *)
(* Time is counted in ticks of half a day, so that a DATE column (a day,   *)
(* compared as that day's midnight) and a datetime (a day and a time of    *)
(* day) stay different things, as they are in PostgreSQL.                  *)
(***************************************************************************)
EXTENDS FiniteSets, Integers, Sequences, TLC

VARIABLES
    now,              \* the wall clock, datetime.now(), in ticks
    ticks,            \* how often the clock has been advanced
    runs,             \* how many pipeline runs have been started
    historicalRuns,   \* how many of them were historical runs
    cleanups,         \* how many direct cleanup_old_data() calls have been made
    db,               \* the committed rows: [customers, bookings, logs]
    pc,               \* position of the current run
    mode,             \* which entry point is running / ran last
    result,           \* what the entry point returned: "True", "False", "raised", "none"
    openSessions,     \* sessions returned by get_session() and not yet closed
    stagesRun,        \* the stages the current run has executed so far
    batches,          \* the batches the current run generated, by kind
    ids,              \* next free identifiers: [customer, booking, log]
    lastCleanup,      \* record of the most recent cleanup_old_data() call
    dirty,            \* a commit of generated rows happened since the last cleanup
    gate,             \* the validate_* function called last
    df_before,        \* the DataFrame handed to it, as it was before the call
    df_after,         \* the same DataFrame object after the call
    validation,       \* what the call returned: <<is_valid, reason>>, <<>> before it returns
    call,             \* a generate_* function call: its arguments and its random draws
    returned          \* [done, value]: whether the call has returned, and the list returned

vars == <<now, ticks, runs, historicalRuns, cleanups, db, pc, mode, result, openSessions, stagesRun,
          batches, ids, lastCleanup, dirty, gate, df_before, df_after, validation,
          call, returned>>

pipelineVars == <<now, ticks, runs, historicalRuns, cleanups, db, pc, mode, result, openSessions, stagesRun,
                  batches, ids, lastCleanup, dirty>>

gateVars == <<gate, df_before, df_after, validation>>

generatorVars == <<call, returned>>

----------------------------------------------------------------------------
(* Bounds of the model *)

MaxRuns == 2               \* pipeline runs explored
MaxHistoricalRuns == 1     \* of which historical ("run ONCE") runs
MaxCleanups == 2           \* direct cleanup_old_data() calls explored
MaxTicks == 1              \* clock advances explored
MaxBookingsPerCall == 1    \* cap on the bookings one generate_bookings_for_customer call returns
MaxLogsPerCustomer == 1    \* cap on random.randint(1, 5) in the historical log stage
MaxNights == 1             \* cap on the stay length drawn for a generated booking
MaxRows == 2               \* rows of a DataFrame handed to a validate_* function
MaxCustomersPerCall == 2   \* largest num_customers of a generate_customers call on its own
MaxSigmas == 13            \* how far from the mean, in standard deviations, a gauss draw is explored

(* Configuration volumes (config/config.yaml, read at the lines mapped) *)

num_customers == 2
new_customers_per_week == 1
bookings_per_week == 2

(* Time *)

TicksPerDay == 2
timedelta(days) == days * TicksPerDay
DateOf(t) == t \div TicksPerDay            \* the date of a datetime
DateTimeOf(d) == d * TicksPerDay           \* a DATE compared with a timestamp: midnight

RetentionDays == 5 * 365
HistoricalDays == 4 * 365
WeeklyDays == 7
LogDays == 2 * 365

TickDays == {366, RetentionDays}

Min(a, b) == IF a < b THEN a ELSE b
Max(a, b) == IF a > b THEN a ELSE b

----------------------------------------------------------------------------
(* Storage: rows, foreign keys, commit *)

EmptyDb == [customers |-> {}, bookings |-> {}, logs |-> {}]

\* schema.py: bookings.customer_id and support_logs.customer_id are foreign
\* keys to customers.customer_id, with no ON DELETE rule.
ForeignKeysHold(d) ==
    /\ \A b \in d.bookings : b.customer_id \in d.customers
    /\ \A l \in d.logs : l.customer_id \in d.customers

\* session.add_all(batch); session.commit(): one transaction.
Commit_rowwise(d, kind, batch, ok) ==
    IF ok THEN [d EXCEPT ![kind] = @ \cup batch]
    ELSE IF batch = {} THEN d
    ELSE [d EXCEPT ![kind] = @ \cup {CHOOSE x \in batch : TRUE}]

Commit_undoing_the_run(d, kind, batch, ok) ==
    IF ok THEN [d EXCEPT ![kind] = @ \cup batch]
    ELSE [d EXCEPT !.customers = @ \ batches.customers]

Commit(d, kind, batch, ok) ==
    IF ok THEN [d EXCEPT ![kind] = @ \cup batch] ELSE d

----------------------------------------------------------------------------
(* cleanup_old_data *)

cutoff_date(t) == t - timedelta(RetentionDays)

old_bookings_inverted(d, cutoff) ==
    {b \in d.bookings : DateTimeOf(b.check_in_date) > cutoff}

\* Booking.check_in_date < cutoff_date: a DATE against a timestamp
old_bookings(d, cutoff) ==
    {b \in d.bookings : DateTimeOf(b.check_in_date) < cutoff}

old_logs_inclusive(d, cutoff) ==
    {l \in d.logs : l.date <= cutoff}

old_logs(d, cutoff) ==
    {l \in d.logs : l.date < cutoff}

\* customers_with_bookings is queried after the bulk delete, in the same
\* transaction: it sees the remaining bookings.
customers_to_keep_cached(d, remaining) == {b.customer_id : b \in d.bookings}

customers_to_keep(d, remaining) == {b.customer_id : b \in remaining}

old_customers_skip_empty(d, keep) ==
    IF keep = {} THEN {} ELSE {c \in d.customers : c \notin keep}

\* ~Customer.customer_id.in_(customers_to_keep): with an empty list every
\* customer matches.
old_customers(d, keep) == {c \in d.customers : c \notin keep}

\* The three bulk deletes, in order, before the commit.
CleanupDeletes(d, cutoff) ==
    LET remaining == d.bookings \ old_bookings(d, cutoff)
        logs == d.logs \ old_logs(d, cutoff)
        keep == customers_to_keep(d, remaining)
    IN  [customers |-> d.customers \ old_customers(d, keep),
         bookings |-> remaining,
         logs |-> logs]

\* The outcome of one call: committed, or rolled back and re-raised.  The
\* customer delete raises when a remaining support log references a deleted
\* customer; any storage call may fail as well (storageOk = FALSE).
CleanupOk_unchecked(d, cutoff, storageOk) == storageOk

CleanupOk(d, cutoff, storageOk) ==
    storageOk /\ ForeignKeysHold(CleanupDeletes(d, cutoff))

CleanupResult_partial(d, cutoff, storageOk) ==
    IF CleanupOk(d, cutoff, storageOk) THEN CleanupDeletes(d, cutoff)
    ELSE [d EXCEPT !.bookings = @ \ old_bookings(d, cutoff)]

CleanupResult(d, cutoff, storageOk) ==
    IF CleanupOk(d, cutoff, storageOk) THEN CleanupDeletes(d, cutoff) ELSE d

\* Whether the call returns: after the commit it counts the three tables
\* inside the same try block, so a failing count (countsOk = FALSE) raises as
\* well; the rollback of the except clause then finds nothing to undo.
CleanupReturns(d, cutoff, storageOk, countsOk) ==
    CleanupOk(d, cutoff, storageOk) /\ countsOk

NoCleanup ==
    [status |-> "none", at |-> 0, cutoff |-> 0, before |-> EmptyDb, repeat |-> FALSE]

CleanupRecord(d, cutoff, storageOk) ==
    [status |-> IF CleanupOk(d, cutoff, storageOk) THEN "ok" ELSE "failed",
     at |-> now,
     cutoff |-> cutoff,
     before |-> d,
     repeat |-> /\ lastCleanup.status = "ok"
                /\ ~dirty
                /\ lastCleanup.cutoff = cutoff]

----------------------------------------------------------------------------
(* Position of a run *)

Terminal == {"idle", "done", "failed", "raised"}

NoBatches == [customers |-> {}, bookings |-> {}, logs |-> {}]

NoFrame == [columns |-> {}, dates |-> "object", rows |-> <<>>]

NoCall == [fn |-> "none"]

NotReturned == [done |-> FALSE, value |-> <<>>]

NoValidation ==
    /\ gate = "none"
    /\ df_before = NoFrame
    /\ df_after = NoFrame
    /\ validation = <<>>

NoGeneratorCall ==
    /\ call = NoCall
    /\ returned = NotReturned

InitPipeline ==
    /\ now = 1
    /\ ticks = 0
    /\ runs = 0
    /\ historicalRuns = 0
    /\ cleanups = 0
    /\ db = EmptyDb
    /\ pc = "idle"
    /\ mode = "none"
    /\ result = "none"
    /\ openSessions = 0
    /\ stagesRun = {}
    /\ batches = NoBatches
    /\ ids = [customer |-> 1, booking |-> 1, log |-> 1]
    /\ lastCleanup = NoCleanup
    /\ dirty = FALSE

Init ==
    /\ InitPipeline
    /\ NoValidation
    /\ NoGeneratorCall

\* Time passes between runs.
Tick ==
    /\ pc \in Terminal
    /\ ticks < MaxTicks
    /\ \E d \in TickDays : now' = now + timedelta(d)
    /\ ticks' = ticks + 1
    /\ UNCHANGED <<runs, historicalRuns, cleanups, db, pc, mode, result, openSessions, stagesRun, batches,
                   ids, lastCleanup, dirty>>
    /\ UNCHANGED <<gateVars, generatorVars>>


----------------------------------------------------------------------------
(* Generator Engine *)

Segments == {"business_traveler", "vacation_traveler", "occasional_visitor"}

\* random.uniform(0.5, 1.5), in tenths
JitterTenths == {5, 10, 15}

bookings_per_year(job_category) ==
    CASE job_category = "business_traveler" -> 12
      [] job_category = "vacation_traveler" -> 4
      [] OTHER -> 1

num_bookings_unfloored(job_category, days_in_range, u) ==
    (((days_in_range * bookings_per_year(job_category)) \div 365) * u) \div 10

\* int(years_in_range * rate), then max(1, int(num_bookings * uniform))
num_bookings(job_category, days_in_range, u) ==
    Max(1, (((days_in_range * bookings_per_year(job_category)) \div 365) * u) \div 10)

\* The draws of one booking: fake.date_between(start_date, end_date) and
\* nights = max(1, int(random.gauss(avg_nights, 2))).
BookingDraws(start_date, end_date) ==
    [check_in : {DateOf(start_date), DateOf(end_date)}, nights : 1..MaxNights]

\* What one generate_bookings_for_customer call can return, as the sequence
\* of its draws, the count truncated at MaxBookingsPerCall.
generate_bookings_for_customer(start_date, end_date) ==
    UNION {[1..Min(num_bookings(job, DateOf(end_date) - DateOf(start_date), u),
                   MaxBookingsPerCall) -> BookingDraws(start_date, end_date)] :
           job \in Segments, u \in JitterTenths}

Booking(id, customer, draw) ==
    [booking_id |-> id,
     customer_id |-> customer,
     check_in_date |-> draw.check_in,
     check_out_date |-> draw.check_in + draw.nights]

\* fake.date_time_between(start_date='-2y', end_date='now')
LogDates == {now - timedelta(LogDays), now}

\* The historical log stage for one customer: no log (70%) or
\* random.randint(1, 5) logs, truncated at MaxLogsPerCustomer.
generate_support_logs_for_customer ==
    {<<>>} \cup UNION {[1..n -> LogDates] : n \in 1..Min(5, MaxLogsPerCustomer)}

SupportLog(id, customer, date) ==
    [interaction_id |-> id, customer_id |-> customer, date |-> date]

\* generate_customers(n): n new rows; the ids come from the serial column
\* at commit.
generate_customers_one_short(n) == ids.customer .. (ids.customer + n - 2)

generate_customers(n) == ids.customer .. (ids.customer + n - 1)

----------------------------------------------------------------------------
(* The generator functions on their own: the records they return for given *)
(* arguments and given outputs of the random source.  Amounts are in cents, *)
(* factors in ten-thousandths, gauss draws in tenths.                       *)

\* config['customer_segments'][job_category]['avg_nights_per_stay']
avg_nights_per_stay(job_category) ==
    CASE job_category = "business_traveler" -> 2
      [] job_category = "vacation_traveler" -> 5
      [] OTHER -> 3

room_types == {"Queen Bed", "King Bed", "Suite"}

base_price(room_type) ==
    CASE room_type = "Queen Bed" -> 120
      [] room_type = "King Bed" -> 150
      [] OTHER -> 300

\* int(x) of a float given in tenths: truncation towards zero
int(x) == IF x >= 0 THEN x \div 10 ELSE -((-x) \div 10)

\* random.gauss(mu, sigma), in tenths: the normal distribution is not
\* bounded; the draws explored lie within MaxSigmas standard deviations.
gauss(mu, sigma) == {10 * mu + sigma * z : z \in {-10 * MaxSigmas, -4, 6, 10 * MaxSigmas}}

\* random.uniform(0.8, 1.2), in ten-thousandths
PriceFactors == {8000, 11999, 12000}

\* round(amount, 2): an amount in ten-thousandths to cents
round2(x) == (x + 50) \div 100

\* nights = max(1, int(random.gauss(avg_nights, 2)))
nights(g) == Max(1, int(g))

\* amount_spent = round(base_price[room_type] * nights * random.uniform(0.8, 1.2), 2)
amount_spent(room_type, n, factor) == round2(base_price(room_type) * n * factor)

\* What the random source yields for one booking of generate_bookings_for_customer:
\* fake.date_between, random.gauss, random.choice(room_types), random.uniform.
BookingRandom(job_category, start_date, end_date) ==
    [check_in : {DateOf(start_date), DateOf(end_date)},
     gauss : gauss(avg_nights_per_stay(job_category), 2),
     room_type : room_types,
     uniform : PriceFactors]

\* The list generate_bookings_for_customer returns, one Booking for each
\* entry of the draws; the channel, party size, special request and status
\* of a booking are further independent draws, left out of the record.
generated_bookings(customer, random) ==
    [i \in 1..Len(random) |->
        [customer_id |-> customer.customer_id,
         check_in_date |-> random[i].check_in,
         check_out_date |-> random[i].check_in + nights(random[i].gauss),
         amount_spent |-> amount_spent(random[i].room_type, nights(random[i].gauss),
                                       random[i].uniform),
         room_type |-> random[i].room_type]]

\* random.randint(21, 75): its ends and a value between
AgeDraws == {21, 48, 75}

\* What the random source yields for one customer of generate_customers:
\* fake.date_between('-4y', 'today'), random.randint, random.choice.
CustomerRandom ==
    [join_date : {DateOf(now) - HistoricalDays, DateOf(now)},
     age : AgeDraws,
     job_category : Segments]

generated_customers_one_short(n, random) ==
    [i \in 1..(n - 1) |->
        [join_date |-> random[i].join_date,
         age |-> random[i].age,
         job_category |-> random[i].job_category]]

\* The list generate_customers returns: for _ in range(num_customers)
generated_customers(n, random) ==
    [i \in 1..n |->
        [join_date |-> random[i].join_date,
         age |-> random[i].age,
         job_category |-> random[i].job_category]]

----------------------------------------------------------------------------
(* Pipeline Orchestrator: control flow *)

Ran(stage, outcome) == <<stage, outcome>> \in stagesRun

Outcome(ok) == IF ok THEN "ok" ELSE "raised"

\* if not test_connection(): return False
AfterConnection_ignored(m, ok) ==
    IF m = "historical" THEN "h_customers" ELSE "w_cleanup"

AfterConnection(m, ok) ==
    IF ~ok THEN "failed"
    ELSE IF m = "historical" THEN "h_customers" ELSE "w_cleanup"

\* test_connection(): the session is closed on the success path only.
SessionsAfterConnection(n, ok) == IF ok THEN n ELSE n + 1

Connect(m) ==
    /\ pc \in Terminal
    /\ runs < MaxRuns
    /\ runs' = runs + 1
    /\ m = "historical" => historicalRuns < MaxHistoricalRuns
    /\ historicalRuns' = historicalRuns + (IF m = "historical" THEN 1 ELSE 0)
    /\ mode' = m
    /\ batches' = NoBatches
    /\ \E ok \in BOOLEAN :
        /\ stagesRun' = {<<"test_connection", Outcome(ok)>>}
        /\ pc' = AfterConnection(m, ok)
        /\ result' = IF ok THEN "none" ELSE "False"
        /\ openSessions' = SessionsAfterConnection(openSessions, ok)
    /\ UNCHANGED <<now, ticks, cleanups, db, ids, lastCleanup, dirty>>
    /\ UNCHANGED <<gateVars, generatorVars>>

run_historical_pipeline == Connect("historical")

run_weekly_pipeline == Connect("weekly")

\* Direct call of cleanup_old_data(): returns None or re-raises.
cleanup_old_data ==
    /\ pc \in Terminal
    /\ cleanups < MaxCleanups
    /\ cleanups' = cleanups + 1
    /\ mode' = "cleanup"
    /\ batches' = NoBatches
    /\ \E storageOk, countsOk \in BOOLEAN :
        LET cutoff == cutoff_date(now)
            ok == CleanupReturns(db, cutoff, storageOk, countsOk)
        IN  /\ db' = CleanupResult(db, cutoff, storageOk)
            /\ lastCleanup' = CleanupRecord(db, cutoff, storageOk)
            /\ stagesRun' = {<<"cleanup", Outcome(ok)>>}
            /\ pc' = IF ok THEN "done" ELSE "raised"
            /\ result' = IF ok THEN "none" ELSE "raised"
    /\ dirty' = FALSE
    /\ UNCHANGED <<now, ticks, runs, historicalRuns, openSessions, ids>>
    /\ UNCHANGED <<gateVars, generatorVars>>

\* Step 2 of run_weekly_pipeline: try cleanup_old_data(), except: continue.
weekly_cleanup ==
    /\ pc = "w_cleanup"
    /\ \E storageOk, countsOk \in BOOLEAN :
        LET cutoff == cutoff_date(now)
            ok == CleanupReturns(db, cutoff, storageOk, countsOk)
        IN  /\ db' = CleanupResult(db, cutoff, storageOk)
            /\ lastCleanup' = CleanupRecord(db, cutoff, storageOk)
            /\ stagesRun' = stagesRun \cup {<<"cleanup", Outcome(ok)>>}
    /\ pc' = "w_customers"
    /\ dirty' = FALSE
    /\ UNCHANGED <<now, ticks, runs, historicalRuns, cleanups, mode, result, openSessions, batches, ids>>
    /\ UNCHANGED <<gateVars, generatorVars>>


----------------------------------------------------------------------------
(* generate_historical_data / generate_weekly_data, stage by stage.  Each
   stage generates a batch, add_all()s it and commits; an exception goes to
   the except clause (rollback, re-raise), the finally clause closes the
   session, and the orchestrator returns False. *)

\* session = get_session() on entry; session.close() in the finally clause,
\* reached after the last stage and after any exception.
SessionsAfterStage(n, ok, first, last) ==
    n + (IF first THEN 1 ELSE 0) - (IF last \/ ~ok THEN 1 ELSE 0)

\* A persistence stage of a generate_* function: commit, or rollback and
\* leave through except/finally.
Persist(kind, batch, ok, nextPc, first, last) ==
    /\ db' = Commit(db, kind, batch, ok)
    /\ batches' = [batches EXCEPT ![kind] = batch]
    /\ dirty' = (dirty \/ (ok /\ batch # {}))
    /\ stagesRun' = stagesRun \cup {<<"generate_" \o kind, "ok">>,
                                    <<"persist_" \o kind, Outcome(ok)>>}
    /\ pc' = IF ok THEN nextPc ELSE "failed"
    /\ result' = IF ok THEN result ELSE "False"
    /\ openSessions' = SessionsAfterStage(openSessions, ok, first, last)

\* Rank of a customer within a batch of consecutive ids.
Rank(customers, c) == Cardinality({x \in customers : x < c})

\* for customer in customers: all_bookings.extend(generate_bookings_for_customer(...))
\* calls[c] is the result of the call for customer c; booking ids are fresh.
HistoricalBookings(customers, calls) ==
    {Booking(ids.booking + Rank(customers, cj[1]) * MaxBookingsPerCall + (cj[2] - 1),
             cj[1], calls[cj[1]][cj[2]]) :
        cj \in {x \in customers \X (1..MaxBookingsPerCall) : x[2] <= Len(calls[x[1]])}}

\* for customer in customers: if random.random() < 0.3: all_logs.extend(...)
HistoricalLogs(customers, calls) ==
    {SupportLog(ids.log + Rank(customers, cj[1]) * MaxLogsPerCustomer + (cj[2] - 1),
                cj[1], calls[cj[1]][cj[2]]) :
        cj \in {x \in customers \X (1..MaxLogsPerCustomer) : x[2] <= Len(calls[x[1]])}}

generate_historical_data_customers ==
    /\ pc = "h_customers"
    /\ \E ok \in BOOLEAN :
        /\ Persist("customers", generate_customers(num_customers), ok, "h_bookings", TRUE, FALSE)
        /\ ids' = IF ok THEN [ids EXCEPT !.customer = @ + num_customers] ELSE ids
    /\ UNCHANGED <<now, ticks, runs, historicalRuns, cleanups, mode, lastCleanup>>
    /\ UNCHANGED <<gateVars, generatorVars>>

generate_historical_data_bookings ==
    /\ pc = "h_bookings"
    /\ \E ok \in BOOLEAN :
       \E calls \in [batches.customers ->
                        generate_bookings_for_customer(now - timedelta(HistoricalDays), now)] :
        /\ Persist("bookings", HistoricalBookings(batches.customers, calls), ok,
                   "h_logs", FALSE, FALSE)
        /\ ids' = IF ok THEN [ids EXCEPT !.booking = @ + num_customers * MaxBookingsPerCall] ELSE ids
    /\ UNCHANGED <<now, ticks, runs, historicalRuns, cleanups, mode, lastCleanup>>
    /\ UNCHANGED <<gateVars, generatorVars>>

generate_historical_data_logs ==
    /\ pc = "h_logs"
    /\ \E ok \in BOOLEAN :
       \E calls \in [batches.customers -> generate_support_logs_for_customer] :
        /\ Persist("logs", HistoricalLogs(batches.customers, calls), ok,
                   "verify", FALSE, TRUE)
        /\ ids' = IF ok THEN [ids EXCEPT !.log = @ + num_customers * MaxLogsPerCustomer] ELSE ids
    /\ UNCHANGED <<now, ticks, runs, historicalRuns, cleanups, mode, lastCleanup>>
    /\ UNCHANGED <<gateVars, generatorVars>>

generate_weekly_data_customers ==
    /\ pc = "w_customers"
    /\ \E ok \in BOOLEAN :
        /\ Persist("customers", generate_customers(new_customers_per_week), ok,
                   "w_bookings", TRUE, FALSE)
        /\ ids' = IF ok THEN [ids EXCEPT !.customer = @ + new_customers_per_week] ELSE ids
    /\ UNCHANGED <<now, ticks, runs, historicalRuns, cleanups, mode, lastCleanup>>
    /\ UNCHANGED <<gateVars, generatorVars>>

\* existing_customers = session.query(Customer).all(), read after the new
\* customers were committed
existing_customers == db.customers

new_customers == batches.customers

all_customers_with_uncommitted ==
    [c \in existing_customers \cup new_customers \cup {ids.customer} |->
        (IF c \in existing_customers THEN 1 ELSE 0) + (IF c \in new_customers THEN 1 ELSE 0)
        + (IF c = ids.customer THEN 1 ELSE 0)]

\* all_customers = existing_customers + new_customers: the list, as the
\* number of times each customer occurs in it
all_customers ==
    [c \in existing_customers \cup new_customers |->
        (IF c \in existing_customers THEN 1 ELSE 0) + (IF c \in new_customers THEN 1 ELSE 0)]

WeeklyBookings_for_each_customer(picks, calls) ==
    {Booking(ids.booking + c, c, calls[1][1]) : c \in DOMAIN all_customers}

\* for _ in range(num_bookings): customer = random.choice(all_customers);
\* bookings = generate_bookings_for_customer(...); if bookings: append(bookings[0])
WeeklyBookings(picks, calls) ==
    {Booking(ids.booking + (slot - 1), picks[slot], calls[slot][1]) :
        slot \in {x \in 1..bookings_per_week : Len(calls[x]) > 0}}

generate_weekly_data_bookings ==
    /\ pc = "w_bookings"
    /\ \E ok \in BOOLEAN :
       \E picks \in [1..bookings_per_week -> DOMAIN all_customers] :
       \E calls \in [1..bookings_per_week ->
                        generate_bookings_for_customer(now - timedelta(WeeklyDays), now)] :
        /\ Persist("bookings", WeeklyBookings(picks, calls), ok, "verify", FALSE, TRUE)
        /\ ids' = IF ok THEN [ids EXCEPT !.booking = @ + bookings_per_week] ELSE ids
    /\ UNCHANGED <<now, ticks, runs, historicalRuns, cleanups, mode, lastCleanup>>
    /\ UNCHANGED <<gateVars, generatorVars>>

\* Step 3 / Step 4: session = get_session(); try: three counts; finally:
\* session.close().  There is no except clause: a failing count propagates
\* out of run_*_pipeline.
VerifyResult(ok) == IF ok THEN "True" ELSE "raised"

Verify ==
    /\ pc = "verify"
    /\ \E ok \in BOOLEAN :
        /\ stagesRun' = stagesRun \cup {<<"verify", Outcome(ok)>>}
        /\ result' = VerifyResult(ok)
        /\ pc' = IF ok THEN "done" ELSE "raised"
    /\ UNCHANGED <<now, ticks, runs, historicalRuns, cleanups, db, mode, openSessions, batches, ids,
                   lastCleanup, dirty>>
    /\ UNCHANGED <<gateVars, generatorVars>>

----------------------------------------------------------------------------
(* Quality Gate (quality_check.py).  A DataFrame is its set of columns, the
   dtype of its date columns and its rows; a row is a function from column
   names to values.  Dates are day numbers. *)

max_booking_amount == 10000
min_nights_stay == 1
max_nights_stay == 30

RoomTypes == {"Queen Bed", "King Bed", "Suite"}
Channels == {"Direct Website", "Agent", "OTA (Booking.com)", "Walk-in"}
Statuses == {"Checked-Out", "Cancelled", "No-Show"}

RowIndex(df) == 1..Len(df.rows)

BookingSchemaColumns ==
    {"customer_id", "check_in_date", "check_out_date", "amount_spent", "room_type",
     "booking_channel", "num_adults", "num_children", "status"}

\* booking_schema.validate(df, lazy=True): every column present, of its
\* dtype, and every value passing its Check.
booking_schema(df) ==
    /\ BookingSchemaColumns \subseteq df.columns
    /\ df.dates = "datetime64"
    /\ \A i \in RowIndex(df) :
        LET r == df.rows[i]
        IN  /\ r["customer_id"] > 0
            /\ r["amount_spent"] >= 0 /\ r["amount_spent"] <= max_booking_amount
            /\ r["room_type"] \in RoomTypes
            /\ r["booking_channel"] \in Channels
            /\ r["num_adults"] >= 1 /\ r["num_adults"] <= 10
            /\ r["num_children"] >= 0 /\ r["num_children"] <= 10
            /\ r["status"] \in Statuses

\* The rows of df whose value in the column fails the Check (passing: the
\* values that pass it), as the rows of SchemaErrors.failure_cases
\* (column, check, index); none when the column is missing.
RowFailures(df, column, check, passing) ==
    IF column \in df.columns
    THEN {<<column, check, i>> : i \in {k \in RowIndex(df) : df.rows[k][column] \notin passing}}
    ELSE {}

\* e.failure_cases of booking_schema.validate(df, lazy=True): with lazy=True
\* every failure is collected; a failure of a whole column has index 0.
failure_cases(df) ==
    {<<c, "column_in_dataframe", 0>> : c \in BookingSchemaColumns \ df.columns}
    \cup {<<c, "dtype('datetime64[ns]')", 0>> :
             c \in IF df.dates = "datetime64" THEN {}
                   ELSE {"check_in_date", "check_out_date"} \cap df.columns}
    \cup RowFailures(df, "customer_id", "greater_than(0)", Nat \ {0})
    \cup RowFailures(df, "amount_spent", "in_range", 0..max_booking_amount)
    \cup RowFailures(df, "room_type", "isin", RoomTypes)
    \cup RowFailures(df, "booking_channel", "isin", Channels)
    \cup RowFailures(df, "num_adults", "in_range", 1..10)
    \cup RowFailures(df, "num_children", "in_range", 0..10)
    \cup RowFailures(df, "status", "isin", Statuses)

CustomerSchemaColumns == {"join_date", "age", "job_category"}

customer_schema(df) ==
    /\ CustomerSchemaColumns \subseteq df.columns
    /\ df.dates = "datetime64"
    /\ \A i \in RowIndex(df) :
        LET r == df.rows[i]
        IN  /\ r["age"] >= 18 /\ r["age"] <= 100
            /\ r["job_category"] \in Segments

\* df[column].duplicated().any()
Duplicated(df, column) ==
    \E i, j \in RowIndex(df) : i < j /\ df.rows[i][column] = df.rows[j][column]

invalid_dates_strict(df) ==
    {i \in RowIndex(df) : df.rows[i]["check_out_date"] < df.rows[i]["check_in_date"]}

invalid_dates(df) ==
    {i \in RowIndex(df) : df.rows[i]["check_out_date"] <= df.rows[i]["check_in_date"]}

Nights(r) == r["check_out_date"] - r["check_in_date"]

invalid_nights(df) ==
    {i \in RowIndex(df) : Nights(df.rows[i]) < min_nights_stay
                          \/ Nights(df.rows[i]) > max_nights_stay}

\* bookings_df['nights'] = (check_out_date - check_in_date).dt.days
WithNights(df) ==
    [df EXCEPT !.columns = @ \cup {"nights"},
               !.rows = [i \in RowIndex(df) |->
                            [c \in DOMAIN df.rows[i] \cup {"nights"} |->
                                IF c = "nights" THEN Nights(df.rows[i]) ELSE df.rows[i][c]]]]

\* How far validate_bookings gets: the check that returns.
BookingsCheck_duplicates_first(df) ==
    CASE ~booking_schema(df) -> "schema"
      [] "booking_id" \in df.columns /\ Duplicated(df, "booking_id") -> "duplicates"
      [] invalid_dates(df) # {} -> "dates"
      [] invalid_nights(df) # {} -> "nights"
      [] OTHER -> "passed"

BookingsCheck(df) ==
    CASE ~booking_schema(df) -> "schema"
      [] invalid_dates(df) # {} -> "dates"
      [] "booking_id" \in df.columns /\ Duplicated(df, "booking_id") -> "duplicates"
      [] invalid_nights(df) # {} -> "nights"
      [] OTHER -> "passed"

\* The returned tuple (is_valid, error_message), the message as its parts.
validate_bookings(df) ==
    CASE BookingsCheck(df) = "schema" ->
            <<FALSE, <<"Schema validation failed", failure_cases(df)>> >>
      [] BookingsCheck(df) = "dates" ->
            <<FALSE, <<"Found", Cardinality(invalid_dates(df)),
                       "bookings where check_out <= check_in">> >>
      [] BookingsCheck(df) = "duplicates" -> <<FALSE, <<"Duplicate booking_ids found">> >>
      [] BookingsCheck(df) = "nights" ->
            <<FALSE, <<"Found", Cardinality(invalid_nights(df)),
                       "bookings with invalid night count (must be",
                       min_nights_stay, max_nights_stay>> >>
      [] OTHER -> <<TRUE, <<>> >>

\* The caller's DataFrame after the call: Check 4 assigns the nights column
\* in place, once Checks 1 to 3 have passed.
bookings_df_after(df) ==
    IF BookingsCheck(df) \in {"nights", "passed"} THEN WithNights(df) ELSE df

validate_customers(df) ==
    CASE ~customer_schema(df) -> <<FALSE, <<"Schema validation failed">> >>
      [] "customer_id" \in df.columns /\ Duplicated(df, "customer_id") ->
            <<FALSE, <<"Duplicate customer_ids found">> >>
      [] OTHER -> <<TRUE, <<>> >>

LogRequiredColumns == {"customer_id", "date", "log_text"}

validate_support_logs(df) ==
    CASE ~(LogRequiredColumns \subseteq df.columns) ->
            <<FALSE, <<"Missing required columns">> >>
      [] \E i \in RowIndex(df) : df.rows[i]["log_text"] \in {"NaN", ""} ->
            <<FALSE, <<"Found empty log_text entries">> >>
      [] \E i \in RowIndex(df) : df.rows[i]["customer_id"] <= 0 ->
            <<FALSE, <<"Found invalid customer_ids (must be > 0)">> >>
      [] OTHER -> <<TRUE, <<>> >>

----------------------------------------------------------------------------
(* Calls of the validate_* functions on DataFrames of up to MaxRows rows *)

Restrict(r, columns) == [c \in columns |-> r[c]]

Frames(rowSet, columnSets) ==
    {[columns |-> cols, dates |-> dt, rows |-> [i \in 1..n |-> Restrict(rows[i], cols)]] :
        <<cols, dt, n, rows>> \in
            {x \in columnSets \X {"datetime64", "object"} \X (0..MaxRows)
                     \X [1..MaxRows -> rowSet] :
                \A k \in 1..MaxRows : k > x[3] => x[4][k] = x[4][1]}}

BaseBooking ==
    [booking_id |-> 1, customer_id |-> 1, check_in_date |-> 10, check_out_date |-> 12,
     amount_spent |-> 100, room_type |-> "Suite", booking_channel |-> "Agent",
     num_adults |-> 2, num_children |-> 0, status |-> "Checked-Out"]

BookingRows ==
    {[BaseBooking EXCEPT !.booking_id = i, !.customer_id = c, !.check_out_date = o] :
        i \in {1, 2}, c \in {0, 1}, o \in {8, 10, 12, 10 + max_nights_stay + 1}}
    \cup {[BaseBooking EXCEPT !.amount_spent = max_booking_amount + 1],
          [BaseBooking EXCEPT !.room_type = "Penthouse"],
          [BaseBooking EXCEPT !.booking_channel = "Phone"],
          [BaseBooking EXCEPT !.num_adults = 0],
          [BaseBooking EXCEPT !.num_children = 11],
          [BaseBooking EXCEPT !.status = "Pending"]}

BookingColumns == DOMAIN BaseBooking

BookingFrames ==
    Frames(BookingRows,
           {BookingColumns, BookingColumns \ {"booking_id"}, BookingColumns \ {"status"}})

BaseCustomer ==
    [customer_id |-> 1, join_date |-> 5, age |-> 30, job_category |-> "business_traveler"]

CustomerRows ==
    {[BaseCustomer EXCEPT !.customer_id = i, !.age = a, !.job_category = j] :
        i \in {1, 2}, a \in {17, 30, 101}, j \in {"business_traveler", "student"}}

CustomerColumns == DOMAIN BaseCustomer

CustomerFrames ==
    Frames(CustomerRows, {CustomerColumns, CustomerColumns \ {"customer_id"}})

BaseLog ==
    [interaction_id |-> 1, customer_id |-> 1, date |-> 5,
     log_text |-> "Guest complained about slow Wi-Fi in room."]

LogRows ==
    {[BaseLog EXCEPT !.customer_id = c, !.log_text = t] :
        c \in {0, 1}, t \in {"Guest complained about slow Wi-Fi in room.", "", "NaN"}}

LogColumns == DOMAIN BaseLog

LogFrames == Frames(LogRows, {LogColumns, LogColumns \ {"log_text"}})

\* A caller holds a DataFrame and is about to hand it to a validate_* function.
InitGate ==
    /\ InitPipeline
    /\ \E g \in {"validate_bookings", "validate_customers", "validate_support_logs"} :
        /\ gate = g
        /\ df_before \in (CASE g = "validate_bookings" -> BookingFrames
                            [] g = "validate_customers" -> CustomerFrames
                            [] OTHER -> LogFrames)
    /\ df_after = df_before
    /\ validation = <<>>
    /\ NoGeneratorCall

Pending(g) == gate = g /\ validation = <<>>

validate_bookings_call ==
    /\ Pending("validate_bookings")
    /\ df_after' = bookings_df_after(df_before)
    /\ validation' = validate_bookings(df_before)
    /\ UNCHANGED <<gate, df_before>>
    /\ UNCHANGED <<pipelineVars, generatorVars>>

validate_customers_call ==
    /\ Pending("validate_customers")
    /\ df_after' = df_before
    /\ validation' = validate_customers(df_before)
    /\ UNCHANGED <<gate, df_before>>
    /\ UNCHANGED <<pipelineVars, generatorVars>>

validate_support_logs_call ==
    /\ Pending("validate_support_logs")
    /\ df_after' = df_before
    /\ validation' = validate_support_logs(df_before)
    /\ UNCHANGED <<gate, df_before>>
    /\ UNCHANGED <<pipelineVars, generatorVars>>

NextGate ==
    \/ validate_bookings_call
    \/ validate_customers_call
    \/ validate_support_logs_call

SpecGate == InitGate /\ [][NextGate]_vars

----------------------------------------------------------------------------
(* Calls of the generate_* functions with given arguments and draws *)

CustomerCalls ==
    UNION {{[fn |-> "generate_customers", num_customers |-> n, random |-> r] :
               r \in [1..n -> CustomerRandom]} : n \in 0..MaxCustomersPerCall}

\* The date ranges the pipelines pass, four years and seven days back from
\* now, and a range of no days.
Windows ==
    {<<now - timedelta(HistoricalDays), now>>, <<now - timedelta(WeeklyDays), now>>, <<now, now>>}

BookingCalls ==
    UNION {{[fn |-> "generate_bookings_for_customer",
             customer |-> [customer_id |-> 1, job_category |-> job],
             start_date |-> w[1], end_date |-> w[2], jitter |-> u, random |-> r] :
               r \in [1..Min(num_bookings(job, DateOf(w[2]) - DateOf(w[1]), u),
                             MaxBookingsPerCall)
                         -> BookingRandom(job, w[1], w[2])]} :
           job \in Segments, w \in Windows, u \in JitterTenths}

InitGenerator ==
    /\ InitPipeline
    /\ NoValidation
    /\ call \in CustomerCalls \cup BookingCalls
    /\ returned = NotReturned

generate_customers_call ==
    /\ call.fn = "generate_customers"
    /\ ~returned.done
    /\ returned' = [done |-> TRUE,
                    value |-> generated_customers(call.num_customers, call.random)]
    /\ UNCHANGED <<call, pipelineVars, gateVars>>

generate_bookings_for_customer_call ==
    /\ call.fn = "generate_bookings_for_customer"
    /\ ~returned.done
    /\ returned' = [done |-> TRUE, value |-> generated_bookings(call.customer, call.random)]
    /\ UNCHANGED <<call, pipelineVars, gateVars>>

NextGenerator ==
    \/ generate_customers_call
    \/ generate_bookings_for_customer_call

SpecGenerator == InitGenerator /\ [][NextGenerator]_vars

Next ==
    \/ Tick
    \/ run_historical_pipeline
    \/ run_weekly_pipeline
    \/ cleanup_old_data
    \/ weekly_cleanup
    \/ generate_historical_data_customers
    \/ generate_historical_data_bookings
    \/ generate_historical_data_logs
    \/ generate_weekly_data_customers
    \/ generate_weekly_data_bookings
    \/ Verify

Spec == Init /\ [][Next]_vars


----------------------------------------------------------------------------
(* Properties *)

Kinds == {"customers", "bookings", "logs"}

CustomersWithBooking(bookings) == {b.customer_id : b \in bookings}

\* The state right after a cleanup_old_data() call that committed.
JustCleaned == lastCleanup.status = "ok" /\ ~dirty

\* The bookings of the dataset cleanup started from that lie before the
\* five-year cutoff of that call.
BookingsBeforeWindow ==
    {b \in lastCleanup.before.bookings :
        b.check_in_date * TicksPerDay < lastCleanup.at - (5 * 365) * TicksPerDay}

RemovedCustomers == lastCleanup.before.customers \ db.customers

\* C1: after a successful cleanup no customer is left without a booking
\* (the customers kept are those of the bookings that survived the delete).
C1_NoCustomerWithoutBooking ==
    JustCleaned => db.customers \subseteq CustomersWithBooking(db.bookings)

C1_Witness ==
    /\ JustCleaned
    /\ db.customers # {}
    /\ \E c \in RemovedCustomers : c \in CustomersWithBooking(lastCleanup.before.bookings)

\* C2 (as claimed): a batch is committed only after the corresponding
\* validate_* check accepted it.
C2_ValidatedBeforePersist ==
    \A kind \in Kinds : Ran("persist_" \o kind, "ok") => Ran("validate_" \o kind, "ok")

C4_CleanupIdempotent ==
    (lastCleanup.repeat /\ ~dirty) => db = lastCleanup.before

C4_Witness ==
    /\ lastCleanup.repeat
    /\ ~dirty
    /\ lastCleanup.status = "ok"
    /\ db.customers # {}
    /\ Cardinality(db.customers) < ids.customer - 1

WeeklyEnded == mode = "weekly" /\ pc \in {"done", "failed", "raised"}

\* C5 (as claimed): when cleanup raises in a weekly run, generation and
\* persistence still run, the run returns True if they succeed, and a failure
\* in any later stage makes it return False.
C5_CleanupFailureTolerated ==
    (WeeklyEnded /\ Ran("cleanup", "raised")) =>
        /\ Ran("generate_customers", "ok")
        /\ (Ran("persist_customers", "ok") /\ Ran("persist_bookings", "ok"))
              => result = "True"
        /\ (\E stage \in {"persist_customers", "persist_bookings", "verify"} :
                Ran(stage, "raised"))
              => result = "False"

\* C6: in a historical run each batch is committed whole or not at all, and
\* a stage that raises leaves none of its batch behind and ends the run Failed.
C6_HistoricalAllOrNothing ==
    mode = "historical" =>
        \A kind \in Kinds :
            /\ batches[kind] \subseteq db[kind] \/ batches[kind] \cap db[kind] = {}
            /\ Ran("persist_" \o kind, "raised") =>
                  /\ batches[kind] \cap db[kind] = {}
                  /\ pc = "failed"
                  /\ result = "False"

C6_Witness ==
    /\ mode = "historical"
    /\ Ran("persist_bookings", "raised")
    /\ Cardinality(batches.bookings) > 1
    /\ batches.customers # {}
    /\ batches.customers \subseteq db.customers

\* C7: a failed connection check ends the run Failed at once: no other
\* stage has run, nothing was generated and the dataset is as it was.
C7_ConnectionFailureAborts ==
    [][(<<"test_connection", "raised">> \in stagesRun') =>
          /\ db' = db
          /\ pc' = "failed"
          /\ result' = "False"
          /\ stagesRun' = {<<"test_connection", "raised">>}
          /\ batches' = NoBatches]_vars

C7_Witness ==
    /\ Ran("test_connection", "raised")
    /\ mode = "weekly"
    /\ db.bookings # {}

PipelineEnded == mode \in {"historical", "weekly"} /\ pc \in {"done", "failed", "raised"}

\* C8 (as claimed): a pipeline run always returns True or False; no
\* exception leaves run_historical_pipeline or run_weekly_pipeline.
C8_AlwaysBoolean ==
    PipelineEnded => result \in {"True", "False"}

\* C9 (as claimed): once an entry point has returned or raised, every
\* session it opened has been closed.
C9_SessionsReleased ==
    pc \in Terminal => openSessions = 0

\* C10 (as claimed): a validate_* call leaves the DataFrame it was given
\* with the same columns, rows and values as before the call.
C10_ValidationDoesNotMutate == validation # <<>> => df_after = df_before

BookingsReturned == gate = "validate_bookings" /\ validation # <<>>

\* The first rule, in the order field checks, dates, duplicates, nights,
\* that the batch handed to validate_bookings violates.
FirstViolated ==
    LET df == df_before
    IN  IF failure_cases(df) # {} THEN "schema"
        ELSE IF \E i \in RowIndex(df) :
                    df.rows[i]["check_out_date"] <= df.rows[i]["check_in_date"]
             THEN "dates"
        ELSE IF "booking_id" \in df.columns
                /\ \E i, j \in RowIndex(df) :
                       i # j /\ df.rows[i]["booking_id"] = df.rows[j]["booking_id"]
             THEN "duplicates"
        ELSE IF \E i \in RowIndex(df) :
                    LET n == df.rows[i]["check_out_date"] - df.rows[i]["check_in_date"]
                    IN  n < min_nights_stay \/ n > max_nights_stay
             THEN "nights"
        ELSE "none"

\* The rows of the batch that offend the first violated rule (for the
\* field checks: the rows named in the failure cases).
OffendingRows ==
    LET df == df_before
    IN  CASE FirstViolated = "schema" -> {fc[3] : fc \in failure_cases(df)} \ {0}
          [] FirstViolated = "dates" ->
                {i \in RowIndex(df) :
                    df.rows[i]["check_out_date"] <= df.rows[i]["check_in_date"]}
          [] FirstViolated = "duplicates" ->
                {i \in RowIndex(df) : \E j \in RowIndex(df) :
                    j < i /\ df.rows[i]["booking_id"] = df.rows[j]["booking_id"]}
          [] FirstViolated = "nights" ->
                {i \in RowIndex(df) :
                    LET n == df.rows[i]["check_out_date"] - df.rows[i]["check_in_date"]
                    IN  n < min_nights_stay \/ n > max_nights_stay}
          [] OTHER -> {}

\* The rule a returned reason names.
ReasonRule(reason) ==
    CASE reason = <<>> -> "none"
      [] reason[1] = "Schema validation failed" -> "schema"
      [] reason[1] = "Duplicate booking_ids found" -> "duplicates"
      [] reason[1] = "Found" /\ reason[3] = "bookings where check_out <= check_in" -> "dates"
      [] reason[1] = "Found" -> "nights"
      [] OTHER -> "other"

\* The reason states how many rows offend: a number in the message, or, for
\* the field checks, the failure cases that list them.
ReasonCounts(reason, rows) ==
    CASE reason = <<>> -> TRUE
      [] reason[1] = "Found" -> reason[2] = Cardinality(rows)
      [] reason[1] = "Schema validation failed" ->
            {fc[3] : fc \in reason[2]} \ {0} = rows
      [] OTHER -> FALSE

C18_DatesRejected ==
    (/\ BookingsReturned
     /\ booking_schema(df_before)
     /\ \E i \in RowIndex(df_before) :
           df_before.rows[i]["check_out_date"] <= df_before.rows[i]["check_in_date"])
    => /\ validation[1] = FALSE
       /\ Len(validation[2]) = 3
       /\ validation[2][3] = "bookings where check_out <= check_in"

C18_Witness ==
    /\ BookingsReturned
    /\ booking_schema(df_before)
    /\ Len(df_before.rows) = 2
    /\ df_before.rows[1]["check_out_date"] = df_before.rows[1]["check_in_date"]
    /\ df_before.rows[2]["check_out_date"] > df_before.rows[2]["check_in_date"]
    /\ validation[1] = FALSE

CustomersReturned == call.fn = "generate_customers" /\ returned.done

BookingsGenerated == call.fn = "generate_bookings_for_customer" /\ returned.done

\* C12 (as claimed): every booking generate_bookings_for_customer returns
\* has check_out after check_in and a number of nights within
\* [min_nights_stay, max_nights_stay].
C12_NightsInBand ==
    BookingsGenerated =>
        \A i \in 1..Len(returned.value) :
            LET b == returned.value[i]
            IN  /\ b.check_out_date > b.check_in_date
                /\ b.check_out_date - b.check_in_date >= min_nights_stay
                /\ b.check_out_date - b.check_in_date <= max_nights_stay

\* C13 (as claimed): every generated booking has amount_spent within
\* [0, max_booking_amount], the amount being the nightly rate of its room
\* type times its nights times a factor in [0.8, 1.2].
C13_AmountInBand ==
    BookingsGenerated =>
        \A i \in 1..Len(returned.value) :
            LET b == returned.value[i]
                rate == CASE b.room_type = "Queen Bed" -> 120
                          [] b.room_type = "King Bed" -> 150
                          [] b.room_type = "Suite" -> 300
                n == b.check_out_date - b.check_in_date
            IN  /\ b.amount_spent >= 0
                /\ b.amount_spent <= max_booking_amount * 100
                /\ b.amount_spent >= rate * n * 80
                /\ b.amount_spent <= rate * n * 120

\* C19: generate_customers(count) returns exactly count records, each with
\* a segment of the enumeration and an age in [21, 75].
C19_CustomersCountAndRange ==
    CustomersReturned =>
        /\ Len(returned.value) = call.num_customers
        /\ \A i \in 1..Len(returned.value) :
              /\ returned.value[i].job_category \in
                    {"business_traveler", "vacation_traveler", "occasional_visitor"}
              /\ returned.value[i].age >= 21
              /\ returned.value[i].age <= 75

C19_Witness ==
    /\ CustomersReturned
    /\ call.num_customers = 2
    /\ Len(returned.value) = 2
    /\ returned.value[1].age = 21
    /\ returned.value[2].age = 75
    /\ returned.value[1].job_category # returned.value[2].job_category

\* C14 (as claimed): in the pool the weekly booking stage samples from,
\* every customer, existing or new, occurs exactly once.
C14_PoolHoldsEachOnce ==
    pc = "w_bookings" => \A c \in DOMAIN all_customers : all_customers[c] = 1

\* C15: whenever a Booking or SupportLog is generated or committed, its
\* customer_id is that of a Customer committed before.
C15_CustomersBeforeDependents ==
    [][\A kind \in {"bookings", "logs"} :
          \A r \in (batches'[kind] \ batches[kind]) \cup (db'[kind] \ db[kind]) :
              r.customer_id \in db.customers /\ r.customer_id \in db'.customers]_vars

C15_Witness ==
    /\ mode = "weekly"
    /\ pc = "verify"
    /\ batches.bookings # {}
    /\ batches.bookings \subseteq db.bookings
    /\ \E b \in batches.bookings : b.customer_id \in batches.customers
    /\ \E b \in batches.bookings : b.customer_id \notin batches.customers
    /\ db.logs # {}

\* C16: a weekly run adds at most bookings_per_week bookings, all of them
\* in its booking stage.
C16_AtMostOnePerSlot ==
    [][mode' = "weekly" =>
          Cardinality(db'.bookings \ db.bookings)
              <= (IF pc = "w_bookings" THEN bookings_per_week ELSE 0)]_vars

C16_Witness ==
    /\ mode = "weekly"
    /\ pc = "done"
    /\ batches.bookings \subseteq db.bookings
    /\ Cardinality(batches.bookings) = bookings_per_week
    /\ Cardinality(db.customers) > bookings_per_week

RunStages ==
    {"h_customers", "h_bookings", "h_logs", "w_cleanup", "w_customers", "w_bookings", "verify"}

\* C20 (as claimed): a pipeline run is in one of its stages or has ended in
\* exactly one of Done (returned True) and Failed (returned False), and no
\* stage of it has run twice.
C20_EndsDoneOrFailed ==
    mode \in {"historical", "weekly"} =>
        /\ pc \in RunStages \cup {"done", "failed"}
        /\ pc = "done" => result = "True"
        /\ pc = "failed" => result = "False"
        /\ \A s, t \in stagesRun : s[1] = t[1] => s = t

\* The state right after a cleanup_old_data() call, committed or not.
JustRanCleanup == lastCleanup.status # "none" /\ ~dirty

\* The customers that the dataset cleanup started from leaves without a
\* booking once the bookings before the cutoff are gone.
CustomersWithoutBookingLeft ==
    lastCleanup.before.customers
        \ CustomersWithBooking(lastCleanup.before.bookings \ BookingsBeforeWindow)

\* C21: after cleanup every remaining support log references an existing
\* customer: no customer is removed while a log dated at or after the cutoff
\* references it.
C21_LogsKeepTheirCustomer ==
    JustRanCleanup =>
        /\ \A l \in db.logs : l.customer_id \in db.customers
        /\ \A c \in RemovedCustomers :
              \A l \in lastCleanup.before.logs :
                  l.customer_id = c => l.date < lastCleanup.cutoff

C21_Witness ==
    /\ JustRanCleanup
    /\ \E c \in CustomersWithoutBookingLeft :
          \E l \in db.logs : l.customer_id = c /\ l.date >= lastCleanup.cutoff
    /\ BookingsBeforeWindow # {}

\* C22: generate_bookings_for_customer returns at least one booking for
\* every segment and date range, the ranges whose rate-based count is zero
\* included.
C22_AtLeastOneBooking ==
    BookingsGenerated =>
        /\ Len(returned.value) >= 1
        /\ returned.value[1].customer_id = call.customer.customer_id

C22_Witness ==
    /\ BookingsGenerated
    /\ call.end_date - call.start_date = timedelta(WeeklyDays)
    /\ ((WeeklyDays * 12) \div 365) = 0
    /\ call.jitter = 15
    /\ Len(returned.value) = 1

\* C23: cleanup is all-or-nothing: a call in which a delete or the commit
\* failed leaves bookings, logs and customers as they were before it, and a
\* call that committed has applied all three deletes.
C23_CleanupAllOrNothing ==
    JustRanCleanup =>
        /\ lastCleanup.status = "failed" => db = lastCleanup.before
        /\ lastCleanup.status = "ok" =>
              /\ db.bookings = lastCleanup.before.bookings \ BookingsBeforeWindow
              /\ db.logs = {l \in lastCleanup.before.logs : l.date >= lastCleanup.cutoff}
              /\ db.customers = lastCleanup.before.customers \cap CustomersWithBooking(db.bookings)

C23_Witness ==
    /\ JustRanCleanup
    /\ lastCleanup.status = "failed"
    /\ db.bookings \cap BookingsBeforeWindow # {}
    /\ \E l \in db.logs : l.date < lastCleanup.cutoff
    /\ CustomersWithoutBookingLeft # {}

\* C24: a committed cleanup deletes no booking whose check-in is at or
\* after the cutoff and no support log dated at or after the cutoff, and it
\* deletes every support log dated before the cutoff.
C24_WindowUntouched ==
    JustCleaned =>
        /\ \A b \in lastCleanup.before.bookings :
              b.check_in_date * TicksPerDay >= lastCleanup.cutoff => b \in db.bookings
        /\ \A l \in lastCleanup.before.logs :
              l.date >= lastCleanup.cutoff <=> l \in db.logs

C24_Witness ==
    /\ JustCleaned
    /\ \E l \in db.logs : l.date = lastCleanup.cutoff
    /\ \E l \in lastCleanup.before.logs : l.date < lastCleanup.cutoff
    /\ db.bookings # {}
    /\ BookingsBeforeWindow # {}

\* C25: when the booking or log persistence stage of a historical or weekly
\* run fails, only that batch is discarded: the customers (and bookings)
\* committed by the earlier stages of the run stay, and the run returns False.
C25_EarlierCommitsStay ==
    mode \in {"historical", "weekly"} =>
        /\ Ran("persist_bookings", "raised") =>
              /\ batches.customers \subseteq db.customers
              /\ batches.bookings \cap db.bookings = {}
              /\ pc = "failed" /\ result = "False"
        /\ Ran("persist_logs", "raised") =>
              /\ batches.customers \subseteq db.customers
              /\ batches.bookings \subseteq db.bookings
              /\ batches.logs \cap db.logs = {}
              /\ pc = "failed" /\ result = "False"

C25_Witness ==
    /\ mode = "weekly"
    /\ Ran("persist_bookings", "raised")
    /\ batches.customers # {}
    /\ batches.customers \subseteq db.customers
    /\ batches.bookings # {}
    /\ Cardinality(db.customers) > Cardinality(batches.customers)

====
